---- MODULE Spec2Model ----
(***************************************************************************)
(* Fetch / cancel / refresh state machine of ViewBatchChangesCommand.tsx:  *)
(* the two hooks useBatchChanges and useChangesets (one FetchState each),  *)
(* the Retry / Publish actions of ChangesetItem and their delayed refresh. *)
(*                                                                         *)
(* Scheduling is the JavaScript event loop: every action below is one      *)
(* event handler or one continuation of an async function, run to its next *)
(* await.                                                                  *)
(***************************************************************************)
EXTENDS Integers, Sequences, FiniteSets, TLC

\* ------------------------------------------------------------------ bounds
\* AbortControllers / remote calls created in one behaviour
MaxCalls == 5
\* Retry / Publish actions triggered in one behaviour
MaxPublish == 2

\* --------------------------------------------------------------- constants
\* setTimeout(r, 10000) in delayedRefreshChangesets
RefreshDelayMs == 10000
\* granularity at which the model lets time pass
TickMs == RefreshDelayMs \div 2

Views == {"batchChanges", "changesets"}

VARIABLES
  view,         \* per hook: "absent" | "constructed" | "mounted" | "unmounted"
  state,        \* per hook: the useState record [items, isLoading]
  cancelRef,    \* per hook: cancelRef.current, index into controllers, 0 = null
  controllers,  \* every AbortController created so far
  calls,        \* every call made on the Remote Data Port
  toasts,       \* every toast shown, in order
  pubs,         \* every Retry / Publish onAction invocation
  uncaught,     \* errors that left an async handler uncaught
  render        \* the component being rendered: its props and what it rendered

vars == <<view, state, cancelRef, controllers, calls, toasts, pubs, uncaught, render>>

\* ------------------------------------------------------ Remote Data Port
\* nodes a fetch may return
NodesOf(f) ==
  IF f = "batchChanges"
    THEN {<<>>, <<[id |-> "bc1"]>>}
    ELSE {<<>>, <<[state |-> "FAILED"]>>, <<[state |-> "UNPUBLISHED"], [state |-> "OPEN"]>>}

\* responses of getBatchChanges / getChangesets: with or without a collection
Responses(f) ==
  {[hasNodes |-> FALSE, nodes |-> <<>>]} \cup {[hasNodes |-> TRUE, nodes |-> n] : n \in NodesOf(f)}

NoResponse == [hasNodes |-> FALSE, nodes |-> <<>>]

AbortError == [name |-> "AbortError", message |-> "The user aborted a request."]
TransportErrors == {[name |-> "Error", message |-> "network"]}
NoError == [name |-> "", message |-> ""]

\* the errors a pending call on signal s may reject with: cancellation is
\* cooperative, so a call whose signal is aborted rejects with AbortError
Rejections(ctrls, s) ==
  IF ctrls[s].aborted THEN {AbortError} ELSE TransportErrors

\* a call can only deliver a result while its signal is not aborted
CanResolve(ctrls, s) == ~ctrls[s].aborted

\* String(error)
String(e) == e.name \o ": " \o e.message

\* ------------------------------------------------------------ the hooks
\* useState initial value
InitialState == [items |-> <<>>, isLoading |-> TRUE]

FetchOp(f) == IF f = "batchChanges" THEN "getBatchChanges" ELSE "getChangesets"

FailTitle(f) == IF f = "batchChanges" THEN "Get batch changes failed" ELSE "Get changesets failed"

\* load() on one cancellation handle shared by both hooks
AbortPrevious_Shared(ctrls, ref) ==
  [h \in DOMAIN ctrls |-> IF ctrls[h].owner \in Views THEN [ctrls[h] EXCEPT !.aborted = TRUE] ELSE ctrls[h]]

\* load() that leaves the previous handle alone
AbortPrevious_NoAbort(ctrls, ref) == ctrls

\* cancelRef.current?.abort()
AbortPrevious(ctrls, ref) ==
  IF ref = 0 THEN ctrls ELSE [ctrls EXCEPT ![ref].aborted = TRUE]

\* load() that keeps the stale items while loading
LoadStart_KeepsItems(s) == [s EXCEPT !.isLoading = TRUE]

\* first setState of load: items cleared, isLoading set
LoadStart(s) == [s EXCEPT !.items = <<>>, !.isLoading = TRUE]

\* resp?.batchChanges?.nodes || []
NodesOrEmpty(resp) == IF resp.hasNodes THEN resp.nodes ELSE <<>>

\* success path that forgets to clear the loading flag
LoadSuccess_KeepsLoading(s, resp) == [s EXCEPT !.items = NodesOrEmpty(resp)]

\* setState on success
LoadSuccess(s, resp) == [s EXCEPT !.items = NodesOrEmpty(resp), !.isLoading = FALSE]

\* catch block that forgets to clear the loading flag
LoadFailure_KeepsLoading(s) == s

\* setState in catch
LoadFailure(s) == [s EXCEPT !.isLoading = FALSE]

\* the failure toast of catch
FailureToast(f, c, e) ==
  [style |-> "Failure", title |-> FailTitle(f), message |-> String(e),
   primaryAction |-> "View details", call |-> c]

\* load() up to its await; by = the publish invocation whose delayed refresh
\* called it, 0 when the view called it
load(f, by) ==
  /\ Len(calls) < MaxCalls
  /\ controllers' = Append(AbortPrevious(controllers, cancelRef[f]),
                           [aborted |-> FALSE, owner |-> f])
  /\ cancelRef' = [cancelRef EXCEPT ![f] = Len(controllers) + 1]
  /\ state' = [state EXCEPT ![f] = LoadStart(state[f])]
  /\ calls' = Append(calls, [op |-> FetchOp(f), view |-> f, signal |-> Len(controllers) + 1,
                             status |-> "pending", error |-> NoError,
                             result |-> NoResponse, by |-> by])

\* nothing is being rendered
NoRender == [component |-> "none"]

Init ==
  /\ view = [f \in Views |-> IF f = "batchChanges" THEN "constructed" ELSE "absent"]
  /\ state = [f \in Views |-> InitialState]
  /\ cancelRef = [f \in Views |-> 0]
  /\ controllers = <<>>
  /\ calls = <<>>
  /\ toasts = <<>>
  /\ pubs = <<>>
  /\ uncaught = <<>>
  /\ render = NoRender

\* the changeset view is the top of the navigation stack
PeekOnTop == view["changesets"] \in {"constructed", "mounted"}

\* the view of hook f is the one the user sees and acts on
Visible(f) ==
  /\ view[f] = "mounted"
  /\ f = "batchChanges" => ~PeekOnTop

\* useEffect(() => { load() }, []): the initial load
MountEffect(f) ==
  /\ view[f] = "constructed"
  /\ load(f, 0)
  /\ view' = [view EXCEPT ![f] = "mounted"]
  /\ UNCHANGED <<render, toasts, pubs, uncaught>>

\* Action.Push "View Batch Change" of a batch-change item: BatchChangePeek
\* is rendered and useChangesets constructs its state
PushPeek ==
  /\ Visible("batchChanges")
  /\ state["batchChanges"].items # <<>>
  /\ view["changesets"] = "absent"
  /\ view' = [view EXCEPT !["changesets"] = "constructed"]
  /\ UNCHANGED <<render, state, cancelRef, controllers, calls, toasts, pubs, uncaught>>

\* the view is torn down; the effect of the hook returns no cleanup
Unmount(f) ==
  /\ Visible(f)
  /\ view' = [view EXCEPT ![f] = "unmounted"]
  /\ UNCHANGED <<render, state, cancelRef, controllers, calls, toasts, pubs, uncaught>>

\* "Refresh Batch Changes" / "Refresh Changesets" of a rendered item
Refresh(f) ==
  /\ Visible(f)
  /\ state[f].items # <<>>
  /\ load(f, 0)
  /\ UNCHANGED <<render, view, toasts, pubs, uncaught>>

IsFetch(c) == calls[c].view \in Views

\* load() after its await: the fetch resolved
FetchResolve(c, resp) ==
  /\ IsFetch(c)
  /\ calls[c].status = "pending"
  /\ CanResolve(controllers, calls[c].signal)
  /\ resp \in Responses(calls[c].view)
  /\ calls' = [calls EXCEPT ![c].status = "resolved", ![c].result = resp]
  /\ state' = [state EXCEPT ![calls[c].view] = LoadSuccess(state[calls[c].view], resp)]
  /\ UNCHANGED <<render, view, cancelRef, controllers, toasts, pubs, uncaught>>

\* load() after its await: the fetch rejected, the catch block runs
FetchReject(c, e) ==
  /\ IsFetch(c)
  /\ calls[c].status = "pending"
  /\ e \in Rejections(controllers, calls[c].signal)
  /\ calls' = [calls EXCEPT ![c].status = "rejected", ![c].error = e]
  /\ toasts' = Append(toasts, FailureToast(calls[c].view, c, e))
  /\ state' = [state EXCEPT ![calls[c].view] = LoadFailure(state[calls[c].view])]
  /\ UNCHANGED <<render, view, cancelRef, controllers, pubs, uncaught>>

\* ---------------------------------------------- ChangesetItem: Retry / Publish
\* switch whose CLOSED case lacks its break and falls into FAILED
SecondaryAction_Fallthrough(changeset) ==
  IF changeset.state \in {"FAILED", "CLOSED"} THEN "retry"
  ELSE IF changeset.state = "UNPUBLISHED" THEN "publish"
  ELSE "none"

\* the secondary action a changeset item exposes
SecondaryAction(changeset) ==
  IF changeset.state = "FAILED" THEN "retry"
  ELSE IF changeset.state = "UNPUBLISHED" THEN "publish"
  ELSE "none"

SuccessTitle(kind) ==
  IF kind = "retry" THEN "Changeset has been submitted for retry!"
  ELSE "Changeset has been submitted for publishing!"

\* publish call handed the signal of the list's current fetch
PublishSignal_OfList(ctrls) == cancelRef["changesets"]

\* new AbortController().signal: the signal of a controller of its own
PublishSignal(ctrls) == Len(ctrls) + 1

\* showToast of the onAction handlers
SuccessToast(kind, c) ==
  [style |-> "Success", title |-> SuccessTitle(kind), message |-> "",
   primaryAction |-> "", call |-> c]

\* delayed refresh wired to the batch-change list
RefreshTarget_BatchChanges == "batchChanges"

\* the list delayedRefreshChangesets refreshes: refreshChangesets is the
\* load of useChangesets
RefreshTarget == "changesets"

\* onAction of "Retry Changeset" / "Publish Changeset" of the i-th rendered
\* changeset, up to its first await
Publish(i) ==
  /\ Visible("changesets")
  /\ i \in DOMAIN state["changesets"].items
  /\ SecondaryAction(state["changesets"].items[i]) # "none"
  /\ Len(pubs) < MaxPublish
  /\ Len(calls) < MaxCalls
  /\ controllers' = Append(controllers, [aborted |-> FALSE, owner |-> "publish"])
  /\ calls' = Append(calls, [op |-> "publishChangeset", view |-> "none",
                             signal |-> PublishSignal(controllers), status |-> "pending",
                             error |-> NoError, result |-> NoResponse, by |-> Len(pubs) + 1])
  /\ pubs' = Append(pubs, [kind |-> SecondaryAction(state["changesets"].items[i]),
                           call |-> Len(calls) + 1, pc |-> "calling", waited |-> 0])
  /\ UNCHANGED <<render, view, state, cancelRef, toasts, uncaught>>

\* publishChangeset resolved: the success toast is shown and the timer of
\* delayedRefreshChangesets is started
PublishResolve(p) ==
  /\ pubs[p].pc = "calling"
  /\ calls[pubs[p].call].status = "pending"
  /\ CanResolve(controllers, calls[pubs[p].call].signal)
  /\ calls' = [calls EXCEPT ![pubs[p].call].status = "resolved"]
  /\ toasts' = Append(toasts, SuccessToast(pubs[p].kind, pubs[p].call))
  /\ pubs' = [pubs EXCEPT ![p].pc = "delay"]
  /\ UNCHANGED <<render, view, state, cancelRef, controllers, uncaught>>

\* onAction that carries on after a rejected publishChangeset
PublishReject_CarriesOn(p, e) ==
  /\ pubs[p].pc = "calling"
  /\ calls[pubs[p].call].status = "pending"
  /\ e \in Rejections(controllers, calls[pubs[p].call].signal)
  /\ calls' = [calls EXCEPT ![pubs[p].call].status = "rejected", ![pubs[p].call].error = e]
  /\ toasts' = Append(toasts, SuccessToast(pubs[p].kind, pubs[p].call))
  /\ pubs' = [pubs EXCEPT ![p].pc = "delay"]
  /\ UNCHANGED <<render, view, state, cancelRef, controllers, uncaught>>

\* publishChangeset rejected: nothing in onAction catches it
PublishReject(p, e) ==
  /\ pubs[p].pc = "calling"
  /\ calls[pubs[p].call].status = "pending"
  /\ e \in Rejections(controllers, calls[pubs[p].call].signal)
  /\ calls' = [calls EXCEPT ![pubs[p].call].status = "rejected", ![pubs[p].call].error = e]
  /\ pubs' = [pubs EXCEPT ![p].pc = "uncaught"]
  /\ uncaught' = Append(uncaught, [call |-> pubs[p].call, message |-> String(e)])
  /\ UNCHANGED <<render, view, state, cancelRef, controllers, toasts>>

Min(a, b) == IF a < b THEN a ELSE b

\* time passes for every running timer
Tick ==
  /\ \E p \in DOMAIN pubs : pubs[p].pc = "delay" /\ pubs[p].waited < RefreshDelayMs
  /\ pubs' = [p \in DOMAIN pubs |->
                IF pubs[p].pc = "delay"
                  THEN [pubs[p] EXCEPT !.waited = Min(@ + TickMs, RefreshDelayMs)]
                  ELSE pubs[p]]
  /\ UNCHANGED <<render, view, state, cancelRef, controllers, calls, toasts, uncaught>>

\* the timer of delayedRefreshChangesets expired: refreshChangesets() runs
TimerFires(p) ==
  /\ pubs[p].pc = "delay"
  /\ pubs[p].waited >= RefreshDelayMs
  /\ load(RefreshTarget, p)
  /\ pubs' = [pubs EXCEPT ![p].pc = "done"]
  /\ UNCHANGED <<render, view, toasts, uncaught>>

Next ==
  \/ \E f \in Views : MountEffect(f)
  \/ PushPeek
  \/ \E f \in Views : Unmount(f)
  \/ \E f \in Views : Refresh(f)
  \/ \E c \in DOMAIN calls : \E resp \in Responses("batchChanges") \cup Responses("changesets") :
       FetchResolve(c, resp)
  \/ \E c \in DOMAIN calls : \E e \in TransportErrors \cup {AbortError} : FetchReject(c, e)
  \/ \E i \in 1..2 : Publish(i)
  \/ \E p \in DOMAIN pubs : PublishResolve(p)
  \/ \E p \in DOMAIN pubs : \E e \in TransportErrors \cup {AbortError} : PublishReject(p, e)
  \/ Tick
  \/ \E p \in DOMAIN pubs : TimerFires(p)

\* the response of call c arrives: every issued call eventually completes
Complete(c) ==
  /\ c \in DOMAIN calls
  /\ \/ \E resp \in Responses("batchChanges") \cup Responses("changesets") : FetchResolve(c, resp)
     \/ \E e \in TransportErrors \cup {AbortError} : FetchReject(c, e)

Spec == Init /\ [][Next]_vars

\* the event loop delivers the response of every fetch that was issued
FairSpec == Spec /\ \A c \in 1..MaxCalls : WF_vars(Complete(c))

\* =================================================== the item components
\* null / undefined of an optional field
Undefined == "<undefined>"

\* JavaScript truthiness of a string | null | undefined
Truthy(v) == v # Undefined /\ v # ""

\* `${n}` of a non-negative integer
Digit(d) ==
  CASE d = 0 -> "0" [] d = 1 -> "1" [] d = 2 -> "2" [] d = 3 -> "3" [] d = 4 -> "4"
    [] d = 5 -> "5" [] d = 6 -> "6" [] d = 7 -> "7" [] d = 8 -> "8" [] d = 9 -> "9"

RECURSIVE ToStr(_)
ToStr(n) == IF n < 10 THEN Digit(n) ELSE ToStr(n \div 10) \o Digit(n % 10)

\* String.prototype.toLowerCase on the enumeration names
ToLowerCase(v) ==
  CASE v = "OPEN" -> "open" [] v = "MERGED" -> "merged" [] v = "CLOSED" -> "closed"
    [] v = "FAILED" -> "failed" [] v = "UNPUBLISHED" -> "unpublished"
    [] v = "PROCESSING" -> "processing" [] v = "RETRYING" -> "retrying"
    [] v = "APPROVED" -> "approved" [] v = "CHANGES_REQUESTED" -> "changes_requested"
    [] v = "PENDING" -> "pending"

\* ------------------------------------------------------------- inputs
ChangesetStates == {"UNPUBLISHED", "PROCESSING", "RETRYING", "OPEN", "CLOSED", "MERGED", "FAILED"}
ReviewStates == {Undefined, "APPROVED", "CHANGES_REQUESTED", "PENDING"}
ExternalIDs == {Undefined, "42"}
ExternalURLs == {Undefined, "https://github.com/o/r/pull/42"}
Timestamps == {"", "not-a-date", "2022-03-01T10:00:00Z"}
Instance == "https://sourcegraph.com"
BatchChangeURL == "/batch-changes/1"

Changesets ==
  [state : ChangesetStates, reviewState : ReviewStates,
   externalID : ExternalIDs, externalURL : ExternalURLs]

Creators ==
  {[displayName |-> "Alice", username |-> "alice"], [displayName |-> "", username |-> "bob"]}

ChangesetsStats == [total : {0, 1, 10}, open : {0, 3}, closed : {0, 2}, merged : {0, 5}]

BatchChanges ==
  [updatedAt : Timestamps, creator : Creators, changesetsStats : ChangesetsStats,
   throwOnInvalid : BOOLEAN]

\* the page size of getBatchChanges
PageCap == 100

\* ----------------------------------------------------------- luxon
\* DateTime.fromISO: an invalid DateTime for an unparsable string, or a
\* throw when luxon is set to throw on invalid
FromISO(ts, throwOnInvalid) ==
  IF ts = "2022-03-01T10:00:00Z" THEN [threw |-> FALSE, isValid |-> TRUE]
  ELSE IF throwOnInvalid THEN [threw |-> TRUE, isValid |-> FALSE]
  ELSE [threw |-> FALSE, isValid |-> FALSE]

\* DateTime.toRelative: null for an invalid DateTime
ToRelative(d) == IF d.isValid THEN "2 days ago" ELSE Undefined

\* let updated = null; try { updated = fromISO(..).toRelative() } catch {}
ParseUpdated(ts, throwOnInvalid) ==
  IF FromISO(ts, throwOnInvalid).threw
    THEN [updated |-> Undefined, threw |-> FALSE]
    ELSE [updated |-> ToRelative(FromISO(ts, throwOnInvalid)), threw |-> FALSE]

\* --------------------------------------------------------- BatchChange
\* creator.displayName || creator.username
Author(creator) == IF Truthy(creator.displayName) THEN creator.displayName ELSE creator.username

\* subtitle of the batch-change item
BatchChangeSubtitle(author, updated) ==
  IF Truthy(updated) THEN "by " \o author \o ", updated " \o updated ELSE author

\* summary that leaves the merged changesets out of the middle figure
AccessoryTitle_NoMerged(st) ==
  IF st.total # 0
    THEN ToStr(st.merged) \o " / " \o ToStr(st.closed + st.open) \o " / " \o ToStr(st.total)
    ELSE Undefined

\* accessoryTitle of the batch-change item
AccessoryTitle(st) ==
  IF st.total # 0
    THEN ToStr(st.merged) \o " / " \o ToStr(st.closed + st.merged + st.open) \o " / " \o ToStr(st.total)
    ELSE Undefined

\* what BatchChange renders
BatchChange(b) ==
  [threw |-> ParseUpdated(b.updatedAt, b.throwOnInvalid).threw,
   subtitle |-> BatchChangeSubtitle(Author(b.creator),
                                    ParseUpdated(b.updatedAt, b.throwOnInvalid).updated),
   accessoryTitle |-> AccessoryTitle(b.changesetsStats)]

\* ---------------------------------------------------- ViewBatchChanges
\* the count above which the section subtitle gets a "+"
CountThreshold == 100

\* subtitle of the "Batch changes" section
SectionSubtitle(count) ==
  (IF count > CountThreshold THEN ToStr(count) \o "+" ELSE ToStr(count)) \o " batch changes"

\* ------------------------------------------------------- ChangesetItem
\* the subtitle variable after the switch
StateSubtitle(c) ==
  IF c.state = "OPEN"
    THEN (IF Truthy(c.reviewState) THEN ToLowerCase(c.reviewState) ELSE "")
    ELSE ToLowerCase(c.state)

\* icon that tints an open changeset by its review state
ChangesetIcon_TintByReview(c) ==
  CASE c.state = "OPEN" ->
         [source |-> CASE c.reviewState = "APPROVED" -> "Checkmark"
                       [] c.reviewState = "CHANGES_REQUESTED" -> "XmarkCircle"
                       [] OTHER -> "Circle",
          tintColor |-> IF c.reviewState = "CHANGES_REQUESTED" THEN "Red" ELSE "Green"]
    [] c.state = "MERGED" -> [source |-> "Checkmark", tintColor |-> "Purple"]
    [] c.state = "CLOSED" -> [source |-> "XmarkCircle", tintColor |-> "Red"]
    [] c.state = "FAILED" -> [source |-> "ExclamationMark", tintColor |-> "Red"]
    [] c.state = "UNPUBLISHED" -> [source |-> "Document", tintColor |-> Undefined]
    [] c.state \in {"PROCESSING", "RETRYING"} -> [source |-> "Clock", tintColor |-> Undefined]
    [] OTHER -> [source |-> "Circle", tintColor |-> Undefined]

\* the icon after the switch
ChangesetIcon(c) ==
  CASE c.state = "OPEN" ->
         [source |-> CASE c.reviewState = "APPROVED" -> "Checkmark"
                       [] c.reviewState = "CHANGES_REQUESTED" -> "XmarkCircle"
                       [] OTHER -> "Circle",
          tintColor |-> "Green"]
    [] c.state = "MERGED" -> [source |-> "Checkmark", tintColor |-> "Purple"]
    [] c.state = "CLOSED" -> [source |-> "XmarkCircle", tintColor |-> "Red"]
    [] c.state = "FAILED" -> [source |-> "ExclamationMark", tintColor |-> "Red"]
    [] c.state = "UNPUBLISHED" -> [source |-> "Document", tintColor |-> Undefined]
    [] c.state \in {"PROCESSING", "RETRYING"} -> [source |-> "Clock", tintColor |-> Undefined]
    [] OTHER -> [source |-> "Circle", tintColor |-> Undefined]

\* subtitle of the changeset item
ItemSubtitle(c) ==
  (IF Truthy(c.externalID) THEN "#" \o c.externalID \o " " ELSE "") \o StateSubtitle(c)

\* url that drops the status query
ChangesetURL_NoStatus(instance, batchChangeURL, c) ==
  IF Truthy(c.externalURL) THEN c.externalURL ELSE instance \o batchChangeURL

\* changeset.externalURL?.url || `${src.instance}${batchChange.url}?status=${changeset.state}`
ChangesetURL(instance, batchChangeURL, c) ==
  IF Truthy(c.externalURL) THEN c.externalURL
  ELSE instance \o batchChangeURL \o "?status=" \o c.state

\* title of the secondary action
SecondaryTitle(kind) == IF kind = "retry" THEN "Retry Changeset" ELSE "Publish Changeset"

\* titles of the actions of the item's ActionPanel, in order
PanelActions(c) ==
  <<"Open in Browser">>
  \o (IF SecondaryAction(c) = "none" THEN <<>> ELSE <<SecondaryTitle(SecondaryAction(c))>>)
  \o <<"Refresh Changesets", "Copy to Clipboard", "Open Changesets in Browser">>

\* what ChangesetItem renders
ChangesetItem(c) ==
  [icon |-> ChangesetIcon(c),
   subtitle |-> ItemSubtitle(c),
   url |-> ChangesetURL(Instance, BatchChangeURL, c),
   secondaryAction |-> SecondaryAction(c),
   actions |-> PanelActions(c)]

\* ------------------------------------------------- rendering one component
RenderInit ==
  /\ view = [f \in Views |-> IF f = "batchChanges" THEN "constructed" ELSE "absent"]
  /\ state = [f \in Views |-> InitialState]
  /\ cancelRef = [f \in Views |-> 0]
  /\ controllers = <<>>
  /\ calls = <<>>
  /\ toasts = <<>>
  /\ pubs = <<>>
  /\ uncaught = <<>>
  /\ render \in
       {[component |-> "ChangesetItem", props |-> c, rendered |-> FALSE] : c \in Changesets}
       \cup {[component |-> "BatchChange", props |-> b, rendered |-> FALSE] : b \in BatchChanges}
       \cup {[component |-> "ViewBatchChanges", props |-> n, rendered |-> FALSE] : n \in 0..PageCap}

\* ChangesetItem renders changeset render.props
RenderChangesetItem ==
  /\ render.component = "ChangesetItem"
  /\ ~render.rendered
  /\ render' = [component |-> "ChangesetItem", props |-> render.props, rendered |-> TRUE,
                out |-> ChangesetItem(render.props), issued |-> "none"]
  /\ UNCHANGED <<view, state, cancelRef, controllers, calls, toasts, pubs, uncaught>>

\* the user triggers the secondary action of the rendered changeset item
SecondaryOnAction ==
  /\ render.component = "ChangesetItem"
  /\ render.rendered
  /\ render.issued = "none"
  /\ render.out.secondaryAction # "none"
  /\ render' = [render EXCEPT !.issued = "publishChangeset"]
  /\ UNCHANGED <<view, state, cancelRef, controllers, calls, toasts, pubs, uncaught>>

\* BatchChange renders batch change render.props
RenderBatchChange ==
  /\ render.component = "BatchChange"
  /\ ~render.rendered
  /\ render' = [component |-> "BatchChange", props |-> render.props, rendered |-> TRUE,
                out |-> BatchChange(render.props)]
  /\ UNCHANGED <<view, state, cancelRef, controllers, calls, toasts, pubs, uncaught>>

\* ViewBatchChanges renders a list of render.props batch changes
RenderViewBatchChanges ==
  /\ render.component = "ViewBatchChanges"
  /\ ~render.rendered
  /\ render' = [component |-> "ViewBatchChanges", props |-> render.props, rendered |-> TRUE,
                out |-> [subtitle |-> SectionSubtitle(render.props)]]
  /\ UNCHANGED <<view, state, cancelRef, controllers, calls, toasts, pubs, uncaught>>

RenderNext ==
  \/ RenderChangesetItem
  \/ SecondaryOnAction
  \/ RenderBatchChange
  \/ RenderViewBatchChanges

RenderSpec == RenderInit /\ [][RenderNext]_vars

\* ------------------------------------------------------------ vocabulary
\* call c is a fetch that a newer load() of its hook has superseded
Superseded(c) == IsFetch(c) /\ calls[c].signal # cancelRef[calls[c].view]

\* call c is the fetch of the most recent load() of its hook
Current(c) == IsFetch(c) /\ calls[c].signal = cancelRef[calls[c].view]

\* the step delivers the response of call c
Completes(c) == calls[c].status = "pending" /\ calls'[c].status # "pending"

\* the handles of hook f that are not cancelled
LiveHandles(f) == {h \in DOMAIN controllers : controllers[h].owner = f /\ ~controllers[h].aborted}

SuccessToastsOf(p) ==
  {i \in DOMAIN toasts : toasts[i].style = "Success" /\ toasts[i].call = pubs[p].call}

FailureToastsOf(c) ==
  {i \in DOMAIN toasts : toasts[i].style = "Failure" /\ toasts[i].call = c}

\* the load() calls the delayed refresh of publish invocation p made
RefreshesOf(p) == {c \in DOMAIN calls : IsFetch(c) /\ calls[c].by = p}

\* ----------------------------------------------------------------- claims
\* C1: the response (success or failure) of a load() that a newer load() of
\* the same FetchState has superseded changes neither items nor isLoading.
C1_SupersededResponseHasNoEffect ==
  [][\A c \in DOMAIN calls :
       (Superseded(c) /\ Completes(c)) => state'[calls[c].view] = state[calls[c].view]]_vars

\* C2: a request cancelled by a newer load() never surfaces an error report:
\* no failure toast is shown for a call that rejected with the cancellation.
C2_NoToastForCancelled ==
  \A i \in DOMAIN toasts :
    toasts[i].style = "Failure" => calls[toasts[i].call].error # AbortError

\* C3: each FetchState has at most one request handle that is not cancelled.
C3_AtMostOneLiveHandle ==
  \A f \in Views : Cardinality(LiveHandles(f)) <= 1

\* C3 witness: a load() overlapped an in-flight one and cancelled its handle
C3_Witness ==
  \E f \in Views : \E c \in DOMAIN calls :
    /\ calls[c].view = f
    /\ calls[c].status = "pending"
    /\ controllers[calls[c].signal].aborted
    /\ Cardinality(LiveHandles(f)) = 1

\* C4: after a view is torn down no request of its FetchState is in flight
\* on a handle that is not cancelled.
C4_TeardownCancels ==
  \A f \in Views :
    view[f] = "unmounted" =>
      \A c \in DOMAIN calls :
        (calls[c].view = f /\ calls[c].status = "pending") => controllers[calls[c].signal].aborted

\* C5: a successful publish/retry shows one success toast, then waits the
\* 10 seconds, then calls load() of the changeset list exactly once, and
\* never load() of the batch-change list.
C5_PublishThenDelayedRefresh ==
  \A p \in DOMAIN pubs :
    /\ calls[pubs[p].call].status = "resolved" <=> pubs[p].pc \in {"delay", "done"}
    /\ pubs[p].pc \in {"calling", "uncaught"} => SuccessToastsOf(p) = {} /\ RefreshesOf(p) = {}
    /\ pubs[p].pc = "delay" => Cardinality(SuccessToastsOf(p)) = 1 /\ RefreshesOf(p) = {}
    /\ pubs[p].pc = "done" =>
         /\ Cardinality(SuccessToastsOf(p)) = 1
         /\ pubs[p].waited >= 10000
         /\ Cardinality(RefreshesOf(p)) = 1
    /\ \A c \in RefreshesOf(p) : calls[c].view = "changesets" /\ calls[c].op = "getChangesets"

\* C5 witness: a publish went through toast, delay and refresh
C5_Witness ==
  \E p \in DOMAIN pubs : pubs[p].pc = "done" /\ RefreshesOf(p) # {}

\* C6: every failure of a remote call is caught where the call was issued
\* and shown as an error report; none leaves its handler uncaught.
C6_AllFailuresCaught ==
  /\ uncaught = <<>>
  /\ \A c \in DOMAIN calls : calls[c].status = "rejected" => FailureToastsOf(c) # {}

\* C7: when the fetch of the most recent load() fails, isLoading becomes
\* false, exactly one error report with the error's string form and a
\* "View details" action is raised, and items stay empty.
C7_CurrentFailure ==
  [][\A c \in DOMAIN calls :
       (Current(c) /\ calls[c].status = "pending" /\ calls'[c].status = "rejected") =>
         /\ calls'[c].error \in TransportErrors
         /\ state'[calls[c].view] = [items |-> <<>>, isLoading |-> FALSE]
         /\ toasts' = Append(toasts,
              [style |-> "Failure",
               title |-> IF calls[c].view = "batchChanges" THEN "Get batch changes failed"
                                                          ELSE "Get changesets failed",
               message |-> calls'[c].error.name \o ": " \o calls'[c].error.message,
               primaryAction |-> "View details", call |-> c])]_vars

\* C7 witness: the current fetch of a hook failed after an earlier load of
\* that hook had shown items
C7_Witness ==
  \E c, d \in DOMAIN calls :
    /\ Current(c) /\ calls[c].status = "rejected"
    /\ d < c /\ calls[d].view = calls[c].view /\ calls[d].result.nodes # <<>>
    /\ ~state[calls[c].view].isLoading
    /\ FailureToastsOf(c) # {}

\* C8: in every state of a FetchState, isLoading implies items is empty.
C8_LoadingImpliesEmpty ==
  \A f \in Views : state[f].isLoading => state[f].items = <<>>

\* C8 witness: a load is in flight after an earlier one had shown items
C8_Witness ==
  \E c, d \in DOMAIN calls :
    /\ Current(c) /\ calls[c].status = "pending"
    /\ d < c /\ calls[d].view = calls[c].view /\ calls[d].result.nodes # <<>>
    /\ state[calls[c].view].isLoading

\* C9: when the fetch of the most recent load() succeeds, items becomes
\* exactly the returned sequence (empty without a collection) and isLoading
\* becomes false.
C9_CurrentSuccess ==
  [][\A c \in DOMAIN calls :
       (Current(c) /\ calls[c].status = "pending" /\ calls'[c].status = "resolved") =>
         /\ calls'[c].result.hasNodes =>
              state'[calls[c].view] = [items |-> calls'[c].result.nodes, isLoading |-> FALSE]
         /\ ~calls'[c].result.hasNodes =>
              state'[calls[c].view] = [items |-> <<>>, isLoading |-> FALSE]]_vars

\* C9 witness: the current fetch returned no collection after an earlier
\* load of the hook had returned items
C9_Witness ==
  \E c, d \in DOMAIN calls :
    /\ Current(c) /\ calls[c].status = "resolved" /\ ~calls[c].result.hasNodes
    /\ d < c /\ calls[d].view = calls[c].view /\ calls[d].result.nodes # <<>>
    /\ state[calls[c].view] = [items |-> <<>>, isLoading |-> FALSE]

\* C10: the signal of a publish/retry call belongs to a controller of its
\* own, which no load() of the changeset list ever aborts.
C10_PublishNeverCancelled ==
  \A p \in DOMAIN pubs :
    /\ ~controllers[calls[pubs[p].call].signal].aborted
    /\ \A f \in Views : calls[pubs[p].call].signal # cancelRef[f]

\* C10 witness: a load() of the changeset list aborted the list's handle
\* while a publish call was in flight
C10_Witness ==
  \E p \in DOMAIN pubs : \E c \in DOMAIN calls :
    /\ calls[pubs[p].call].status = "pending"
    /\ c > pubs[p].call /\ calls[c].view = "changesets"
    /\ \E h \in DOMAIN controllers : controllers[h].owner = "changesets" /\ controllers[h].aborted

\* the step is an operation (load, response, failure, cancellation) of hook g
OperationOf(g) ==
  \/ cancelRef'[g] # cancelRef[g]
  \/ \E c \in DOMAIN calls : calls[c].view = g /\ Completes(c)

\* C11: the two FetchStates are isolated: a load(), response, failure or
\* cancellation on one leaves the other's items, isLoading and cancellation
\* handle unchanged.
C11_Isolated ==
  [][\A f, g \in Views :
       (f # g /\ OperationOf(g)) =>
         /\ state'[f] = state[f]
         /\ cancelRef'[f] = cancelRef[f]
         /\ \A h \in DOMAIN controllers :
              controllers[h].owner = f => controllers'[h] = controllers[h]]_vars

\* C11 witness: the changeset list went through overlapping loads while the
\* batch-change list kept its items and its live handle
C11_Witness ==
  /\ state["batchChanges"] = [items |-> <<[id |-> "bc1"]>>, isLoading |-> FALSE]
  /\ cancelRef["batchChanges"] # 0
  /\ ~controllers[cancelRef["batchChanges"]].aborted
  /\ \E c \in DOMAIN calls :
       /\ calls[c].view = "changesets"
       /\ calls[c].status = "rejected"
       /\ calls[c].error = AbortError

\* the publishChangeset calls of publish invocation p
PublishCallsOf(p) == {c \in DOMAIN calls : calls[c].op = "publishChangeset" /\ calls[c].by = p}

\* C18: a failed publish/retry shows no success toast, schedules no delayed
\* refresh, is not issued again, and leaves the changeset list's FetchState
\* (items, isLoading, handle) as it was.
C18_FailedPublishStops ==
  [][\A p \in DOMAIN pubs :
       /\ (pubs[p].pc = "calling" /\ calls'[pubs[p].call].status = "rejected") =>
            /\ pubs'[p].pc = "uncaught"
            /\ toasts' = toasts
            /\ state' = state
            /\ cancelRef' = cancelRef
            /\ controllers' = controllers
            /\ Len(calls') = Len(calls)
       /\ pubs[p].pc = "uncaught" =>
            /\ pubs'[p] = pubs[p]
            /\ SuccessToastsOf(p) = {}
            /\ RefreshesOf(p) = {}
            /\ Cardinality(PublishCallsOf(p)) = 1]_vars

\* C18 witness: a publish failed and the list was loaded again afterwards by
\* something else
C18_Witness ==
  \E p \in DOMAIN pubs : \E c \in DOMAIN calls :
    /\ pubs[p].pc = "uncaught"
    /\ calls[pubs[p].call].status = "rejected"
    /\ c > pubs[p].call /\ calls[c].view = "changesets"

\* hook f has loaded and none of its fetches is pending
Settled(f) ==
  /\ cancelRef[f] # 0
  /\ \A c \in DOMAIN calls : calls[c].view = f => calls[c].status # "pending"

\* C19: with finitely many load() calls and every fetch completing, the
\* loading flag of a FetchState that loaded eventually is false for good,
\* and it only ever turns true in a load().
C19_LoadingEnds ==
  /\ \A f \in Views : <>[](cancelRef[f] = 0 \/ ~state[f].isLoading)
  /\ [][\A f \in Views :
          (~state[f].isLoading /\ state'[f].isLoading) => cancelRef'[f] # cancelRef[f]]_vars

\* C19 witness: a hook whose loads overlapped has all its fetches completed
\* and shows no loading state
C19_Witness ==
  \E f \in Views :
    /\ Settled(f)
    /\ ~state[f].isLoading
    /\ \E c \in DOMAIN calls : calls[c].view = f /\ calls[c].error = AbortError

\* a component of the given kind has rendered
Rendered(component) == render.component = component /\ render.rendered

\* how often the rendered item's ActionPanel holds an action of that title
ActionCount(title) ==
  Cardinality({i \in DOMAIN render.out.actions : render.out.actions[i] = title})

\* C12: a FAILED changeset exposes exactly one retry action and no publish
\* action, an UNPUBLISHED one exactly one publish action and no retry
\* action, every other state neither; a publish/retry call is only issued
\* from FAILED or UNPUBLISHED.
C12_SecondaryActions ==
  Rendered("ChangesetItem") =>
    /\ ActionCount("Retry Changeset") = (IF render.props.state = "FAILED" THEN 1 ELSE 0)
    /\ ActionCount("Publish Changeset") = (IF render.props.state = "UNPUBLISHED" THEN 1 ELSE 0)
    /\ render.issued # "none" => render.props.state \in {"FAILED", "UNPUBLISHED"}

\* C12 witness: the retry action of a FAILED changeset was triggered
C12_Witness ==
  /\ Rendered("ChangesetItem")
  /\ render.props.state = "FAILED"
  /\ ActionCount("Retry Changeset") = 1
  /\ render.issued = "publishChangeset"

\* C13: rendering a batch change never raises, and its subtitle is
\* "by {creator}, updated {relativeTime}" when the timestamp parses and
\* "by {creator}" when it does not.
C13_SubtitleDegrades ==
  Rendered("BatchChange") =>
    LET creator == IF render.props.creator.displayName # ""
                     THEN render.props.creator.displayName
                     ELSE render.props.creator.username
    IN /\ ~render.out.threw
       /\ render.out.subtitle =
            IF render.props.updatedAt = "2022-03-01T10:00:00Z"
              THEN "by " \o creator \o ", updated 2 days ago"
              ELSE "by " \o creator

\* C14: the count label is "100+" when the number of batch changes meets
\* the page-size cap of 100 and the plain number below the cap.
C14_CountLabel ==
  Rendered("ViewBatchChanges") =>
    /\ render.props = 100 => render.out.subtitle = "100+ batch changes"
    /\ render.props < 100 => render.out.subtitle = ToStr(render.props) \o " batch changes"

\* the lowercased review state of the rendered changeset, empty if absent
LoweredReview ==
  CASE render.props.reviewState = "APPROVED" -> "approved"
    [] render.props.reviewState = "CHANGES_REQUESTED" -> "changes_requested"
    [] render.props.reviewState = "PENDING" -> "pending"
    [] OTHER -> ""

\* tint and icon of an OPEN changeset: green; check if approved, x-circle
\* if changes were requested, open circle otherwise
OpenIconAsSpecified ==
  /\ render.out.icon.tintColor = "Green"
  /\ render.out.icon.source =
       CASE render.props.reviewState = "APPROVED" -> "Checkmark"
         [] render.props.reviewState = "CHANGES_REQUESTED" -> "XmarkCircle"
         [] OTHER -> "Circle"

\* C15 as stated: for every OPEN changeset, whatever its other fields, tint
\* green, icon by review state, and subtitle equal to the lowercased review
\* state (empty if absent).
C15_OpenProjection_Original ==
  (Rendered("ChangesetItem") /\ render.props.state = "OPEN") =>
    /\ OpenIconAsSpecified
    /\ render.out.subtitle = LoweredReview

\* C15 amended: for every OPEN changeset, tint green, icon by review state,
\* and subtitle equal to the lowercased review state (empty if absent),
\* prefixed with "#{externalID} " when an external identifier is present.
C15_OpenProjection ==
  (Rendered("ChangesetItem") /\ render.props.state = "OPEN") =>
    /\ OpenIconAsSpecified
    /\ render.props.externalID = Undefined => render.out.subtitle = LoweredReview
    /\ render.props.externalID # Undefined =>
         render.out.subtitle = "#" \o render.props.externalID \o " " \o LoweredReview
    /\ (render.props.reviewState = "APPROVED" /\ render.props.externalID = Undefined) =>
         /\ render.out.icon = [source |-> "Checkmark", tintColor |-> "Green"]
         /\ render.out.subtitle = "approved"

\* C15 witness: an OPEN, APPROVED changeset with an external identifier
C15_Witness ==
  /\ Rendered("ChangesetItem")
  /\ render.props.state = "OPEN"
  /\ render.props.reviewState = "APPROVED"
  /\ render.props.externalID = "42"
  /\ render.out.subtitle = "#42 approved"

\* C16: the accessory summary is "{merged} / {closed+merged+open} / {total}"
\* when total > 0 (total=10, open=3, closed=2, merged=5 gives
\* "5 / 10 / 10") and absent when total = 0.
C16_AccessorySummary ==
  Rendered("BatchChange") =>
    LET st == render.props.changesetsStats
    IN /\ st.total > 0 =>
            render.out.accessoryTitle =
              ToStr(st.merged) \o " / " \o ToStr(st.closed + st.merged + st.open)
                \o " / " \o ToStr(st.total)
       /\ st.total = 0 => render.out.accessoryTitle = Undefined
       /\ st = [total |-> 10, open |-> 3, closed |-> 2, merged |-> 5] =>
            render.out.accessoryTitle = "5 / 10 / 10"

\* C16 witness: the batch change with total=10, open=3, closed=2, merged=5
C16_Witness ==
  /\ Rendered("BatchChange")
  /\ render.props.changesetsStats = [total |-> 10, open |-> 3, closed |-> 2, merged |-> 5]
  /\ render.out.accessoryTitle = "5 / 10 / 10"

\* C17: the canonical URL of a changeset is its external URL when present
\* and {instance}{batchChangeURL}?status={state} otherwise.
C17_CanonicalURL ==
  Rendered("ChangesetItem") =>
    /\ render.props.externalURL # Undefined => render.out.url = render.props.externalURL
    /\ render.props.externalURL = Undefined =>
         render.out.url = "https://sourcegraph.com" \o "/batch-changes/1" \o "?status="
                            \o render.props.state
    /\ (render.props.externalURL = Undefined /\ render.props.state = "CLOSED") =>
         render.out.url = "https://sourcegraph.com/batch-changes/1?status=CLOSED"

\* C17 witness: a CLOSED changeset without an external URL
C17_Witness ==
  /\ Rendered("ChangesetItem")
  /\ render.props.state = "CLOSED"
  /\ render.props.externalURL = Undefined
  /\ render.out.url = "https://sourcegraph.com/batch-changes/1?status=CLOSED"

====
